---- MODULE Spec2Model ----
(***************************************************************************)
(* Model of the data-entry core of the exposure dashboard:                 *)
(*   src/src/data.py              get_categories_table (memoized builder)  *)
(*   src/src/pages/data_entry.py  validate_or_reset_table, validate_table, *)
(*                                clear_table, restore_table_from_session, *)
(*                                get_exposure_input, export_placeholder,  *)
(*                                calculate_exposure                       *)
(*                                                                         *)
(* A string of the program is a sequence of one-character strings, so that *)
(* the regular expression, strip_chars, split and the integer cast are     *)
(* computed character by character.  A JSON value is a record tagged by    *)
(* its type in field t.                                                    *)
(***************************************************************************)
EXTENDS Integers, Sequences, FiniteSets, TLC

VARIABLES
    catalog,    \* get_df(): the (Group Code, Group Name) columns, row by row
    cache,      \* functools.cache of get_categories_table: {} or {the frame}
    table,      \* input-table.data
    disabled,   \* btn-calculate.disabled
    session,    \* session-input-data.data
    results_tab_disabled,  \* results-tab.disabled
    op,         \* the function Dash called last ("init": none yet)
    table_data, \* the table argument of that call
    returned    \* what that call returned

vars == <<catalog, cache, table, disabled, session,
          results_tab_disabled, op, table_data, returned>>

----------------------------------------------------------------------------
(* Bounds *)

\* longest enumerated group code, in characters
MaxCodeLen == 3
\* use levels typed into a cell range over -MaxLevel..MaxLevel
MaxLevel == 2
\* longest enumerated session list
MaxEntries == 2

----------------------------------------------------------------------------
(* Strings *)

Digits == {"0", "1", "2", "3", "4", "5", "6", "7", "8", "9"}

DigitVal(c) ==
    CASE c = "0" -> 0 [] c = "1" -> 1 [] c = "2" -> 2 [] c = "3" -> 3
      [] c = "4" -> 4 [] c = "5" -> 5 [] c = "6" -> 6 [] c = "7" -> 7
      [] c = "8" -> 8 [] c = "9" -> 9

\* r'^\d+(\.\d+)*\.?$' as an automaton over the characters from position i:
\* q = 0 at the start, 1 inside a run of digits, 2 right after a '.'.
RECURSIVE RegexFrom(_, _, _)
RegexFrom(s, i, q) ==
    IF i > Len(s) THEN q # 0
    ELSE IF s[i] \in Digits THEN RegexFrom(s, i + 1, 1)
    ELSE IF s[i] = "." /\ q = 1 THEN RegexFrom(s, i + 1, 2)
    ELSE FALSE

\* pl.col('Group Code').str.contains(r'^\d+(\.\d+)*\.?$')
MatchesCode(s) == RegexFrom(s, 1, 0)

\* .str.strip_chars("."): every leading and every trailing '.' removed
RECURSIVE StripLeft(_)
StripLeft(s) ==
    IF s # <<>> /\ Head(s) = "." THEN StripLeft(Tail(s)) ELSE s

RECURSIVE StripRight(_)
StripRight(s) ==
    IF s # <<>> /\ s[Len(s)] = "." THEN StripRight(SubSeq(s, 1, Len(s) - 1)) ELSE s

StripChars(s) == StripRight(StripLeft(s))

\* .str.split("."): the segments between the dots (one segment when no dot)
RECURSIVE SplitFrom(_, _, _)
SplitFrom(s, i, cur) ==
    IF i > Len(s) THEN <<cur>>
    ELSE IF s[i] = "." THEN <<cur>> \o SplitFrom(s, i + 1, <<>>)
    ELSE SplitFrom(s, i + 1, Append(cur, s[i]))

Split(s) == SplitFrom(s, 1, <<>>)

\* pl.element().cast(pl.Int64): the decimal value; CastError when the segment
\* is no decimal integer (the strict cast raises)
CastError == -1

RECURSIVE DecimalValue(_, _)
DecimalValue(seg, acc) ==
    IF seg = <<>> THEN acc ELSE DecimalValue(Tail(seg), 10 * acc + DigitVal(Head(seg)))

CastInt64(seg) ==
    IF seg # <<>> /\ \A k \in 1..Len(seg) : seg[k] \in Digits
    THEN DecimalValue(seg, 0)
    ELSE CastError

\* the sort key without the split: the digits of the code read as one integer
SortKeyFlat(code) ==
    <<CastInt64(SelectSeq(code, LAMBDA c : c \in Digits))>>

\* the _sort_key column of one code
SortKey(code) ==
    LET segs == Split(StripChars(code))
    IN  [k \in 1..Len(segs) |-> CastInt64(segs[k])]

\* the order .sort() puts on a list column: element by element, a proper
\* prefix before its extensions
RECURSIVE ListLess(_, _)
ListLess(a, b) ==
    IF b = <<>> THEN FALSE
    ELSE IF a = <<>> THEN TRUE
    ELSE IF Head(a) # Head(b) THEN Head(a) < Head(b)
    ELSE ListLess(Tail(a), Tail(b))

ListLeq(a, b) == a = b \/ ListLess(a, b)

----------------------------------------------------------------------------
(* JSON values *)

Null == [t |-> "null"]
Num(n) == [t |-> "num", n |-> n]
Str(s) == [t |-> "str", s |-> s]
List(items) == [t |-> "list", items |-> items]
Obj(m) == [t |-> "obj", m |-> m]

\* v is not None
NotNone(v) == v.t # "null"
\* v > 0 and v <= 0 are defined (v is a number); otherwise they raise TypeError
Ordered(v) == v.t = "num"

----------------------------------------------------------------------------
(* data.py *)

\* df.select(['Group Code', 'Group Name']).unique()
Unique(df) == {df[i] : i \in 1..Len(df)}

\* .filter(pl.col('Group Code').str.contains(...))
Filter(rows) == {r \in rows : MatchesCode(r.group_code)}

\* .with_columns(_sort_key).sort("_sort_key").drop("_sort_key"): unique() and
\* sort() keep no order among equal keys, so every arrangement of the rows
\* that ascends (weakly) in the key is a possible outcome
Sorted(rows) ==
    LET n == Cardinality(rows)
    IN  {f \in [1..n -> rows] :
            /\ \A i, j \in 1..n : i # j => f[i] # f[j]
            /\ \A i \in 1..n : \A j \in (i + 1)..n :
                   ListLeq(SortKey(f[i].group_code), SortKey(f[j].group_code))}

\* df_categories.with_columns([lit(None) as use level, lit(False) as consumers of])
WithInitialValues(f) ==
    [i \in 1..Len(f) |->
        [group_code |-> f[i].group_code, group_name |-> f[i].group_name,
         use_level |-> Null, consumers_of |-> FALSE]]

\* the frames one uncached run of get_categories_table can return
BuildTables(df) == {WithInitialValues(f) : f \in Sorted(Filter(Unique(df)))}

\* @cache get_categories_table(): the memoized frame once there is one
get_categories_table == IF cache = {} THEN BuildTables(catalog) ELSE cache

\* DataFrame.to_dicts(): a new list of new dicts, one per row
to_dicts(df) ==
    [i \in 1..Len(df) |->
        [group_code |-> df[i].group_code, group_name |-> df[i].group_name,
         use_level |-> df[i].use_level, consumers_of |-> df[i].consumers_of]]

----------------------------------------------------------------------------
(* data_entry.py: the functions *)

\* what a Python call does: return (disabled, data), or raise exc
Return(d, data) == [exc |-> "none", disabled |-> d, data |-> data]
Raise(exc) == [exc |-> exc, disabled |-> TRUE, data |-> <<>>]

\* row.get("Use level (mg/kg)") is not None and row.get("Use level (mg/kg)") > 0
\* (evaluated only where the comparison is defined)
IsPositive(v) == NotNone(v) /\ v.n > 0

\* row.get("Use level (mg/kg)") is None or row.get("Use level (mg/kg)") <= 0
IsNoneOrNonPositive(v) == ~NotNone(v) \/ v.n <= 0

\* the comparison with 0 raises TypeError on this value
Unordered(v) == NotNone(v) /\ ~Ordered(v)

\* if ...: row["Consumers of"] = False
ClearConsumersOf(row) == [row EXCEPT !.consumers_of = FALSE]

\* any(...) stops at the first row that passes its test: that row's index,
\* or Len(td) + 1 when no row passes
FirstOf(passes, td) ==
    IF passes = {} THEN Len(td) + 1
    ELSE CHOOSE i \in passes : \A j \in passes : i <= j

\* a comparison with 0 raises TypeError: in any(), on a row before the first
\* that passes; in the for loop, on any row
ComparisonRaises(td, firstPass) ==
    \/ \E i \in 1..Len(td) : i < firstPass /\ Unordered(td[i].use_level)
    \/ \E i \in 1..Len(td) : Unordered(td[i].use_level)

\* validate_table clearing only where the use level is below 0
validate_table_lt(td) ==
    LET passes == {i \in 1..Len(td) : Ordered(td[i].use_level) /\ IsPositive(td[i].use_level)}
    IN  IF ComparisonRaises(td, FirstOf(passes, td)) THEN Raise("TypeError")
        ELSE Return(~(passes # {}),
                    [i \in 1..Len(td) |->
                        IF ~NotNone(td[i].use_level) \/ td[i].use_level.n < 0
                        THEN ClearConsumersOf(td[i]) ELSE td[i]])

\* validate_table enabling calculate from a use level of 0 up
validate_table_ge(td) ==
    LET passes == {i \in 1..Len(td) : Ordered(td[i].use_level) /\ td[i].use_level.n >= 0}
    IN  IF ComparisonRaises(td, FirstOf(passes, td)) THEN Raise("TypeError")
        ELSE Return(~(passes # {}),
                    [i \in 1..Len(td) |->
                        IF IsNoneOrNonPositive(td[i].use_level)
                        THEN ClearConsumersOf(td[i]) ELSE td[i]])

\* validate_table emptying the use level together with the flag
validate_table_row(td) ==
    LET passes == {i \in 1..Len(td) : Ordered(td[i].use_level) /\ IsPositive(td[i].use_level)}
    IN  IF ComparisonRaises(td, FirstOf(passes, td)) THEN Raise("TypeError")
        ELSE Return(~(passes # {}),
                    [i \in 1..Len(td) |->
                        IF IsNoneOrNonPositive(td[i].use_level)
                        THEN [td[i] EXCEPT !.use_level = Null, !.consumers_of = FALSE]
                        ELSE td[i]])

validate_table(td) ==
    LET \* the rows any() would accept
        passes == {i \in 1..Len(td) : Ordered(td[i].use_level) /\ IsPositive(td[i].use_level)}
        enable_calculate == passes # {}
    IN  IF ComparisonRaises(td, FirstOf(passes, td)) THEN Raise("TypeError")
        ELSE Return(~enable_calculate,
                    [i \in 1..Len(td) |->
                        IF IsNoneOrNonPositive(td[i].use_level)
                        THEN ClearConsumersOf(td[i]) ELSE td[i]])

\* reset_data = get_categories_table().to_dicts(); return True, reset_data
clear_table(df) == Return(TRUE, to_dicts(df))

\* for item in session_data: a list gives its items, a str its characters, a
\* mapping its keys (strings; which string does not matter below); anything
\* else is not iterable
Iterable(sd) == sd.t \in {"list", "str", "obj"}
Iterate(sd) ==
    CASE sd.t = "list" -> sd.items
      [] sd.t = "str" -> [i \in 1..Len(sd.s) |-> Str(<<sd.s[i]>>)]
      [] sd.t = "obj" -> [i \in 1..Cardinality(DOMAIN sd.m) |-> Str(<<"k">>)]

\* item['group_code'] as a dict key: "none" when it works, else the exception
KeyFault(item) ==
    IF item.t # "obj" THEN "TypeError"                  \* not subscriptable by str
    ELSE IF "group_code" \notin DOMAIN item.m THEN "KeyError"
    ELSE IF item.m.group_code.t \in {"list", "obj"} THEN "TypeError"  \* unhashable
    ELSE "none"

\* session_item.get('use_level') and session_item.get('consumers_of', False)
GetUseLevel(item) == IF "use_level" \in DOMAIN item.m THEN item.m.use_level ELSE Null
\* the lookup of consumers_of under a key no entry has: always the default
GetConsumersOfDefault(item) == FALSE
GetConsumersOf(item) ==
    IF "consumers_of" \in DOMAIN item.m THEN item.m.consumers_of ELSE FALSE

\* the try block of restore_table_from_session, and its except clause for the
\* exceptions in caught
RestoreCatching(session_data, df, caught) ==
    LET base_data == to_dicts(df)
        items == Iterate(session_data)
        faulty == {i \in 1..Len(items) : KeyFault(items[i]) # "none"}
        firstFault == CHOOSE i \in faulty : \A j \in faulty : i <= j
        \* {item['group_code']: item for item in session_data}: the last wins
        InMap(code) == \E i \in 1..Len(items) : items[i].m.group_code = Str(code)
        Lookup(code) ==
            items[CHOOSE i \in 1..Len(items) :
                     /\ items[i].m.group_code = Str(code)
                     /\ \A j \in (i + 1)..Len(items) : items[j].m.group_code # Str(code)]
        updated ==
            [i \in 1..Len(base_data) |->
                IF InMap(base_data[i].group_code)
                THEN [base_data[i] EXCEPT
                        !.use_level = GetUseLevel(Lookup(base_data[i].group_code)),
                        !.consumers_of = GetConsumersOf(Lookup(base_data[i].group_code))]
                ELSE base_data[i]]
        attempt ==
            IF ~Iterable(session_data) THEN Raise("TypeError")
            ELSE IF faulty # {} THEN Raise(KeyFault(items[firstFault]))
            ELSE validate_table(updated)
    IN  IF attempt.exc \in caught THEN clear_table(df) ELSE attempt

\* restore_table_from_session with except KeyError alone
restore_catching_key_error(session_data, df) ==
    RestoreCatching(session_data, df, {"KeyError"})

restore_table_from_session(session_data, df) ==
    RestoreCatching(session_data, df, {"KeyError", "TypeError", "AttributeError"})

\* the dict get_exposure_input makes of a row
ExposureEntry(row) ==
    Obj([group_code |-> Str(row.group_code),
         use_level |-> row.use_level,
         consumers_of |-> row.consumers_of])

\* if row['Use level (mg/kg)'] is not None and row['Use level (mg/kg)'] > 0
IsEligible(row) == IsPositive(row.use_level)

\* the dicts of the rows kept
ExposureEntries(rows) == [k \in 1..Len(rows) |-> ExposureEntry(rows[k])]

\* get_exposure_input keeping the rows from a use level of 0 up
IsEligibleGe(row) == NotNone(row.use_level) /\ row.use_level.n >= 0
get_exposure_input_ge(td) == List(ExposureEntries(SelectSeq(td, IsEligibleGe)))

get_exposure_input(td) == List(ExposureEntries(SelectSeq(td, IsEligible)))

\* json.dumps(exposure_input, indent=2), as the sequence of its tokens (the
\* white space of the indentation left out)
JsonString(chars) == <<"\"">> \o chars \o <<"\"">>
JsonNumber(v) == <<ToString(v.n)>>
JsonBool(b) == IF b THEN <<"true">> ELSE <<"false">>
JsonEntry(e) ==
    <<"{", "\"group_code\"", ":">> \o JsonString(e.m.group_code.s)
    \o <<",", "\"use_level\"", ":">> \o JsonNumber(e.m.use_level)
    \o <<",", "\"consumers_of\"", ":">> \o JsonBool(e.m.consumers_of) \o <<"}">>

RECURSIVE JsonEntries(_, _)
JsonEntries(items, i) ==
    IF i > Len(items) THEN <<>>
    ELSE (IF i > 1 THEN <<",">> ELSE <<>>) \o JsonEntry(items[i]) \o JsonEntries(items, i + 1)

json_dumps(v) == <<"[">> \o JsonEntries(v.items, 1) \o <<"]">>

\* validate_or_reset_table testing for an id no component has, so that a
\* click on reset falls through to the default case
validate_or_reset_table_noreset(triggered_id, td, session_data, df) ==
    IF triggered_id = "" THEN Return(TRUE, td)
    ELSE IF triggered_id = "reset-btn" THEN clear_table(df)
    ELSE IF triggered_id = "session-input-data" /\ NotNone(session_data)
         THEN restore_table_from_session(session_data, df)
    ELSE IF triggered_id = "input-table" THEN validate_table(td)
    ELSE Return(TRUE, td)

\* validate_or_reset_table overlaying the session on the table it was given
\* instead of the canonical table
validate_or_reset_table_patch(triggered_id, td, session_data, df) ==
    IF triggered_id = "" THEN Return(TRUE, td)
    ELSE IF triggered_id = "btn-reset" THEN clear_table(df)
    ELSE IF triggered_id = "session-input-data" /\ NotNone(session_data)
         THEN restore_table_from_session(session_data, td)
    ELSE IF triggered_id = "input-table" THEN validate_table(td)
    ELSE Return(TRUE, td)

\* the body of validate_or_reset_table, triggered_id being
\* callback_context.triggered[0]["prop_id"].split(".")[0], or "" when
\* callback_context.triggered is empty
validate_or_reset_table(triggered_id, td, session_data, df) ==
    IF triggered_id = "" THEN Return(TRUE, td)
    ELSE IF triggered_id = "btn-reset" THEN clear_table(df)
    ELSE IF triggered_id = "session-input-data" /\ NotNone(session_data)
         THEN restore_table_from_session(session_data, df)
    ELSE IF triggered_id = "input-table" THEN validate_table(td)
    ELSE Return(TRUE, td)

----------------------------------------------------------------------------
(* The page: one action per function Dash calls *)

\* a callback's outputs reach the page only when it returns
Outputs(r) ==
    IF r.exc = "none"
    THEN table' = r.data /\ disabled' = r.disabled
    ELSE UNCHANGED <<table, disabled>>

\* layout() with btn-calculate left at the default disabled=False
LayoutEnabled ==
    \E df \in get_categories_table :
        /\ cache' = {df}
        /\ table' = to_dicts(df)
        /\ disabled' = FALSE
        /\ op' = "layout"
        /\ table_data' = <<>>
        /\ returned' = Return(FALSE, to_dicts(df))
        /\ UNCHANGED <<catalog, session, results_tab_disabled>>

\* layout(): a new input-table holding the canonical table, calculate disabled
Layout ==
    \E df \in get_categories_table :
        /\ cache' = {df}
        /\ table' = to_dicts(df)
        /\ disabled' = TRUE
        /\ op' = "layout"
        /\ table_data' = <<>>
        /\ returned' = Return(TRUE, to_dicts(df))
        /\ UNCHANGED <<catalog, session, results_tab_disabled>>

\* the values a use-level cell takes: empty or a number
UseLevels == {Null} \cup {Num(n) : n \in (0 - MaxLevel)..MaxLevel}

\* the user edits one cell; validate_or_reset_table runs for input-table.data
EditCell(td) ==
    LET r == validate_or_reset_table("input-table", td, session, <<>>)
    IN  /\ op # "init"
        /\ Outputs(r)
        /\ op' = "edit"
        /\ table_data' = td
        /\ returned' = r
        /\ UNCHANGED <<catalog, cache, session, results_tab_disabled>>

Edit ==
    \E i \in 1..Len(table) :
        \/ \E v \in UseLevels : EditCell([table EXCEPT ![i].use_level = v])
        \/ \E b \in BOOLEAN : EditCell([table EXCEPT ![i].consumers_of = b])

\* the user clicks reset; validate_or_reset_table runs for btn-reset.n_clicks
Reset ==
    /\ op # "init"
    /\ \E df \in get_categories_table :
          LET r == validate_or_reset_table("btn-reset", table, session, df)
          IN  /\ cache' = {df}
              /\ Outputs(r)
              /\ returned' = r
    /\ op' = "reset"
    /\ table_data' = table
    /\ UNCHANGED <<catalog, session, results_tab_disabled>>

\* the store delivers its content; validate_or_reset_table runs for
\* session-input-data.data
SessionTrigger ==
    /\ op # "init"
    /\ IF NotNone(session)
       THEN \E df \in get_categories_table :
                LET r == validate_or_reset_table("session-input-data", table, session, df)
                IN  /\ cache' = {df}
                    /\ Outputs(r)
                    /\ returned' = r
       ELSE LET r == validate_or_reset_table("session-input-data", table, session, <<>>)
            IN  /\ Outputs(r)
                /\ returned' = r
                /\ UNCHANGED cache
    /\ op' = "session"
    /\ table_data' = table
    /\ UNCHANGED <<catalog, session, results_tab_disabled>>

\* the user clicks the (enabled) calculate button: calculate_exposure
Calculate ==
    /\ op # "init"
    /\ ~disabled
    /\ session' = get_exposure_input(table)
    /\ results_tab_disabled' = FALSE
    /\ op' = "calculate"
    /\ table_data' = table
    /\ returned' = get_exposure_input(table)
    /\ UNCHANGED <<catalog, cache, table, disabled>>

\* the user clicks export: export_placeholder
Export ==
    /\ op # "init"
    /\ op' = "export"
    /\ table_data' = table
    /\ returned' = [content |-> json_dumps(get_exposure_input(table)),
                    filename |-> "exposure_input.json"]
    /\ UNCHANGED <<catalog, cache, table, disabled, session, results_tab_disabled>>

----------------------------------------------------------------------------
(* Inputs *)

Record(code, name) == [group_code |-> code, group_name |-> name]

\* catalogs of the page: two codes out of order; one code under two names;
\* two codes that differ by a trailing '.'; a malformed code and a duplicate
PageCatalogs ==
    { <<Record(<<"2">>, "a"), Record(<<"1">>, "a")>>,
      <<Record(<<"1">>, "a"), Record(<<"1">>, "b")>>,
      <<Record(<<"1", ".">>, "a"), Record(<<"1">>, "a")>>,
      <<Record(<<"x">>, "a"), Record(<<"1">>, "a"), Record(<<"1">>, "a")>> }

\* catalogs of the builder: every pair of records whose codes are strings of
\* at most MaxCodeLen of these characters, and the catalog of the scenario
CodeAlphabet == {"0", "1", ".", "x"}
Codes == UNION {[1..n -> CodeAlphabet] : n \in 0..MaxCodeLen}
ScenarioCatalog ==
    << Record(<<"2">>, "a"), Record(<<"1", ".", "2">>, "a"),
       Record(<<"1", ".", "1", "0">>, "a"), Record(<<"1">>, "a"),
       Record(<<"1", ".", "2", ".", "3">>, "a"), Record(<<"a", "b", "c">>, "a"),
       Record(<<"1", ".", "2", ".", "3", ".", "x">>, "a") >>
BuildCatalogs ==
    {<<Record(c1, "a"), Record(c2, n2)>> : c1 \in Codes, c2 \in Codes, n2 \in {"a", "b"}}
    \cup {ScenarioCatalog}

\* a session entry: a mapping with any of the three keys ("absent": no key)
Absent == [t |-> "absent"]
Entry(g, u, c) ==
    LET keys == (IF g # Absent THEN {"group_code"} ELSE {})
                \cup (IF u # Absent THEN {"use_level"} ELSE {})
                \cup (IF c # "absent" THEN {"consumers_of"} ELSE {})
    IN  Obj([k \in keys |->
                CASE k = "group_code" -> g
                  [] k = "use_level" -> u
                  [] k = "consumers_of" -> (c = "true")])

\* what the browser's session storage may hold when the page opens
StalePayloads ==
    { Null,
      List(<<>>),
      List(<<Entry(Str(<<"1">>), Num(0), "true"), Entry(Str(<<"9">>), Num(1), "true")>>),
      Num(7) }

\* payloads of restore_table_from_session: the values that are no list, and
\* the lists of at most MaxEntries entries
EntryPool ==
    {Entry(g, u, c) :
        g \in {Absent, Str(<<"1">>), Str(<<"2">>), Str(<<"9">>), List(<<>>)},
        u \in {Absent, Num(0), Num(1), Str(<<"x">>)},
        c \in {"absent", "true"}}
    \cup {Null}
RestorePayloads ==
    {Null, Num(7), Str(<<>>), Str(<<"1">>), Obj(<<>>), Obj([group_code |-> Str(<<"1">>)])}
    \cup {List(items) : items \in UNION {[1..n -> EntryPool] : n \in 0..MaxEntries}}

----------------------------------------------------------------------------
(* Specifications *)

InitWith(catalogs, payloads) ==
    /\ catalog \in catalogs
    /\ session \in payloads
    /\ cache = {}
    /\ table = <<>>
    /\ disabled = TRUE
    /\ results_tab_disabled = TRUE
    /\ op = "init"
    /\ table_data = <<>>
    /\ returned = Return(TRUE, <<>>)

\* the page, opened on a catalog with whatever the session storage holds
Init == InitWith(PageCatalogs, StalePayloads)
Next == Layout \/ Edit \/ Reset \/ SessionTrigger \/ Calculate \/ Export
Spec == Init /\ [][Next]_vars

\* the builder alone, over the enumerated catalogs
InitBuild == InitWith(BuildCatalogs, {Null})
NextBuild == Layout
SpecBuild == InitBuild /\ [][NextBuild]_vars

\* restoration alone, over the enumerated payloads
InitRestore == InitWith(PageCatalogs, RestorePayloads)
NextRestore == Layout \/ SessionTrigger
SpecRestore == InitRestore /\ [][NextRestore]_vars

----------------------------------------------------------------------------
(* Properties *)

\* a use level that is null or <= 0, and one that is a number > 0
NullOrNonPositive(v) == v.t = "null" \/ (v.t = "num" /\ ~(v.n > 0))
StrictlyPositive(v) == v.t = "num" /\ v.n > 0

\* the last call was validate_or_reset_table and it returned
Validated == op \in {"edit", "reset", "session"} /\ returned.exc = "none"

CrossField(rows) ==
    \A i \in 1..Len(rows) :
        NullOrNonPositive(rows[i].use_level) => rows[i].consumers_of = FALSE

\* C1: in every state the page reaches by load, edits, resets and session
\* restorations, and in every table validate_or_reset_table returns, a row
\* whose use level is null or <= 0 has consumers_of = false.
C1_CrossFieldInvariant ==
    /\ CrossField(table)
    /\ Validated => CrossField(returned.data)

\* C1 witness: an edit handed validate_table a row flagged consumers_of with a
\* use level that is null or <= 0.
C1_Witness ==
    /\ op = "edit"
    /\ \E i \in 1..Len(table_data) :
          /\ table_data[i].consumers_of
          /\ NullOrNonPositive(table_data[i].use_level)

\* C5: validate_table returns disabled = false exactly when some row of its
\* input has a use level that is a number > 0.
C5_CanCalculate ==
    op = "edit" =>
        /\ returned.exc = "none"
        /\ returned.disabled = ~(\E i \in 1..Len(table_data) :
                                    StrictlyPositive(table_data[i].use_level))
        /\ disabled = returned.disabled

\* C5 witness: validate_table ran on a table with a use level of exactly 0 and
\* none above 0.
C5_Witness ==
    /\ op = "edit"
    /\ \E i \in 1..Len(table_data) : table_data[i].use_level = Num(0)
    /\ \A i \in 1..Len(table_data) : ~StrictlyPositive(table_data[i].use_level)

\* C6: validate_table returns a table of the same length whose rows keep, in
\* each position, group_code, group_name and use_level; consumers_of is kept
\* on every row with a use level > 0.
C6_ValidationFrame ==
    op = "edit" =>
        /\ returned.exc = "none"
        /\ Len(returned.data) = Len(table_data)
        /\ \A i \in 1..Len(table_data) :
              /\ returned.data[i].group_code = table_data[i].group_code
              /\ returned.data[i].group_name = table_data[i].group_name
              /\ returned.data[i].use_level = table_data[i].use_level
              /\ DOMAIN returned.data[i] = DOMAIN table_data[i]
              /\ StrictlyPositive(table_data[i].use_level) =>
                    returned.data[i].consumers_of = table_data[i].consumers_of

\* C6 witness: validate_table changed its input, which held a row above 0 too.
C6_Witness ==
    /\ op = "edit"
    /\ returned.data # table_data
    /\ \E i \in 1..Len(table_data) :
          StrictlyPositive(table_data[i].use_level) /\ table_data[i].consumers_of

\* the frame get_categories_table has memoized, and the table of default rows
\* (use level null, consumers_of false) over the rows of a frame
CachedFrame == CHOOSE df \in cache : TRUE
DefaultRows(df) ==
    [i \in 1..Len(df) |->
        [group_code |-> df[i].group_code, group_name |-> df[i].group_name,
         use_level |-> [t |-> "null"], consumers_of |-> FALSE]]

\* the entries compaction owes: the k-th entry is made of the k-th row, in
\* table order, whose use level is a number > 0
EligibleRows(td) == {i \in 1..Len(td) : StrictlyPositive(td[i].use_level)}
NthOf(S, k) == CHOOSE i \in S : Cardinality({j \in S : j < i}) = k - 1
ExpectedPayload(td) ==
    [t |-> "list",
     items |-> [k \in 1..Cardinality(EligibleRows(td)) |->
                  LET row == td[NthOf(EligibleRows(td), k)]
                  IN  [t |-> "obj",
                       m |-> [group_code |-> [t |-> "str", s |-> row.group_code],
                              use_level |-> row.use_level,
                              consumers_of |-> row.consumers_of]]]]

\* C7: calculate_exposure writes to the session store, and export_placeholder
\* serializes, one entry {group_code, use_level, consumers_of} for exactly the
\* rows with a use level > 0, in table order and with the row's values; the
\* editable table is left as it was.
C7_Compaction ==
    /\ op = "calculate" =>
          /\ session = ExpectedPayload(table_data)
          /\ returned = session
          /\ table = table_data
          /\ ~results_tab_disabled
    /\ op = "export" =>
          /\ returned.content = json_dumps(ExpectedPayload(table_data))
          /\ returned.filename = "exposure_input.json"
          /\ table = table_data

\* C7 witness: calculate ran on a table with a row above 0, flagged, and a row
\* at exactly 0.
C7_Witness ==
    /\ op = "calculate"
    /\ \E i, j \in 1..Len(table_data) :
          /\ StrictlyPositive(table_data[i].use_level) /\ table_data[i].consumers_of
          /\ table_data[j].use_level = Num(0)

\* C10: a reset, from any state of the page, returns the canonical table of
\* the memoized frame with every row at its defaults and calculate disabled;
\* the memoized frame is a frame the builder returns for the catalog, never
\* one that carries an edit.
C10_Reset ==
    /\ cache # {} => cache \subseteq BuildTables(catalog) /\ Cardinality(cache) = 1
    /\ op = "reset" =>
          /\ returned.exc = "none"
          /\ returned.disabled /\ disabled
          /\ returned.data = table
          /\ table = DefaultRows(CachedFrame)

\* C10 witness: reset ran on a table that held a use level above 0 with the
\* flag set.
C10_Witness ==
    /\ op = "reset"
    /\ \E i \in 1..Len(table_data) :
          StrictlyPositive(table_data[i].use_level) /\ table_data[i].consumers_of

\* restore_table_from_session called on a null and on an empty session: the
\* canonical table with calculate disabled
DirectRestoreResets ==
    \A sd \in {Null, List(<<>>)} :
        restore_table_from_session(sd, CachedFrame)
            = [exc |-> "none", disabled |-> TRUE, data |-> DefaultRows(CachedFrame)]

\* C4 as claimed: restoring from a null or empty session yields the canonical
\* table of default rows whatever the table held, for restore_table_from_session
\* called directly and for the session-store trigger of validate_or_reset_table.
C4_Original ==
    op # "init" =>
        /\ DirectRestoreResets
        /\ (op = "session" /\ session \in {Null, List(<<>>)}) =>
              table = DefaultRows(CachedFrame) /\ disabled

\* C4 amended: restore_table_from_session called directly on a null or empty
\* session yields the canonical table of default rows, and so does the
\* session-store trigger on an empty list, whatever the table held and however
\* often; on a null session the trigger does not restore: it returns the table
\* it was given, with calculate disabled.
C4_ResetThroughRestoration ==
    op # "init" =>
        /\ DirectRestoreResets
        /\ (op = "session" /\ session = List(<<>>)) =>
              /\ returned.exc = "none"
              /\ table = DefaultRows(CachedFrame) /\ disabled
        /\ (op = "session" /\ session = Null) =>
              /\ returned.exc = "none"
              /\ table = table_data /\ disabled

\* C4 witness: the trigger ran on an empty session while the table held a use
\* level above 0.
C4_Witness ==
    /\ op = "session"
    /\ session = List(<<>>)
    /\ \E i \in 1..Len(table_data) : StrictlyPositive(table_data[i].use_level)

\* C2 as claimed: restoring the compaction of the editable table T gives T on
\* every row with a use level > 0 and the defaults (null, false) on every
\* other row.
C2_RoundTrip ==
    op # "init" =>
        LET r == restore_table_from_session(get_exposure_input(table), CachedFrame)
        IN  /\ r.exc = "none"
            /\ Len(r.data) = Len(table)
            /\ \A i \in 1..Len(table) :
                  IF StrictlyPositive(table[i].use_level)
                  THEN r.data[i] = table[i]
                  ELSE r.data[i] = [table[i] EXCEPT !.use_level = [t |-> "null"],
                                                    !.consumers_of = FALSE]

\* the integer segments of a code, read in one pass: a '.' closes a segment,
\* the end of the code closes the last one unless a '.' just did
RECURSIVE SegmentsFrom(_, _, _, _)
SegmentsFrom(code, i, done, cur) ==
    IF i > Len(code)
    THEN IF code[Len(code)] = "." THEN done ELSE Append(done, cur)
    ELSE IF code[i] = "." THEN SegmentsFrom(code, i + 1, Append(done, cur), 0)
    ELSE SegmentsFrom(code, i + 1, done, 10 * cur + DigitVal(code[i]))

Segments(code) == SegmentsFrom(code, 1, <<>>, 0)

\* a is lexicographically less than b: they agree up to a place where a has
\* ended or holds the smaller integer
LexLess(a, b) ==
    \E k \in 1..Len(b) :
        /\ \A j \in 1..(k - 1) : j <= Len(a) /\ a[j] = b[j]
        /\ k = Len(a) + 1 \/ (k <= Len(a) /\ a[k] < b[k])

HierarchicallySorted(rows) ==
    \A i, j \in 1..Len(rows) :
        i < j => ~LexLess(Segments(rows[j].group_code), Segments(rows[i].group_code))

DistinctCodes(rows) ==
    \A i, j \in 1..Len(rows) : i # j => rows[i].group_code # rows[j].group_code

\* C8 as claimed: for every catalog the memoized canonical table, and the
\* editable table in every state of the page, has pairwise distinct group
\* codes, is sorted by the hierarchical order, and holds the codes of the
\* canonical table in their order.
C8_CanonicalTable ==
    op # "init" =>
        /\ DistinctCodes(CachedFrame) /\ HierarchicallySorted(CachedFrame)
        /\ DistinctCodes(table) /\ HierarchicallySorted(table)
        /\ Len(table) = Len(CachedFrame)
        /\ \A i \in 1..Len(table) : table[i].group_code = CachedFrame[i].group_code

\* C9 as claimed: of two different surviving codes, A precedes B in the
\* canonical table exactly when the integer segments of A are
\* lexicographically less than those of B.
C9_Original ==
    op = "layout" =>
        \A i, j \in 1..Len(table) :
            table[i].group_code # table[j].group_code =>
                (i < j <=> LexLess(Segments(table[i].group_code),
                                   Segments(table[j].group_code)))

\* the codes of the scenario in the order the spec gives
ScenarioOrder ==
    << <<"1">>, <<"1", ".", "2">>, <<"1", ".", "2", ".", "3">>,
       <<"1", ".", "1", "0">>, <<"2">> >>

\* C9 amended: of two surviving codes whose integer segments differ, A
\* precedes B in the canonical table exactly when the segments of A are
\* lexicographically less than those of B, a proper prefix before its
\* extensions; codes with the same segments ("1", "1." and "01") come out in
\* either order.  The codes 2, 1.2, 1.10, 1, 1.2.3, abc, 1.2.3.x come out as
\* 1, 1.2, 1.2.3, 1.10, 2.
C9_SortCorrectness ==
    op = "layout" =>
        /\ \A i, j \in 1..Len(table) :
              Segments(table[i].group_code) # Segments(table[j].group_code) =>
                  (i < j <=> LexLess(Segments(table[i].group_code),
                                     Segments(table[j].group_code)))
        /\ catalog = ScenarioCatalog =>
              [i \in 1..Len(table) |-> table[i].group_code] = ScenarioOrder

\* C9 witness: the builder put 10 before 011, which as text come the other
\* way round.
C9_Witness ==
    /\ op = "layout"
    /\ [i \in 1..Len(table) |-> table[i].group_code] = << <<"1", "0">>, <<"0", "1", "1">> >>

\* shapes of a session payload
NotAList(p) == p.t # "list"
IllShapedEntry(e) ==
    \/ e.t # "obj"
    \/ "group_code" \notin DOMAIN e.m
    \/ e.m.group_code.t \in {"list", "obj"}
BadLevel(e) == "use_level" \in DOMAIN e.m /\ e.m.use_level.t \notin {"null", "num"}
\* the entry a canonical row takes its values from: the last with its code
UsedBy(p, k, rows) ==
    /\ \E i \in 1..Len(rows) : p.items[k].m.group_code = [t |-> "str", s |-> rows[i].group_code]
    /\ \A j \in (k + 1)..Len(p.items) : p.items[j].m.group_code # p.items[k].m.group_code

\* malformed as C3 has it: no list, or some entry that is no mapping, lacks
\* group_code, or has a use level that cannot be compared with 0
Malformed(p) ==
    \/ NotAList(p)
    \/ \E k \in 1..Len(p.items) : IllShapedEntry(p.items[k])
    \/ \E k \in 1..Len(p.items) : BadLevel(p.items[k])

\* malformed in a way restoration meets: the use level that cannot be
\* compared is in an entry some canonical row takes its values from
MalformedInUse(p, rows) ==
    \/ NotAList(p)
    \/ \E k \in 1..Len(p.items) : IllShapedEntry(p.items[k])
    \/ \E k \in 1..Len(p.items) : BadLevel(p.items[k]) /\ UsedBy(p, k, rows)

ResetResult == [exc |-> "none", disabled |-> TRUE, data |-> DefaultRows(CachedFrame)]

WellFormedEntry(e) ==
    /\ e.t = "obj"
    /\ "group_code" \in DOMAIN e.m
    /\ e.m.group_code.t = "str"
    /\ "use_level" \in DOMAIN e.m => e.m.use_level.t \in {"null", "num"}
WellFormed(p) ==
    /\ p.t = "list"
    /\ \A k \in 1..Len(p.items) : WellFormedEntry(p.items[k])
\* the positions of the session entries that carry a row's group_code
EntriesFor(p, row) ==
    {k \in 1..Len(p.items) : p.items[k].m.group_code = [t |-> "str", s |-> row.group_code]}
Last(ks) == CHOOSE k \in ks : \A j \in ks : j <= k
\* an entry's use_level and consumers_of, null and false where it has none
LevelOf(e) == IF "use_level" \in DOMAIN e.m THEN e.m.use_level ELSE [t |-> "null"]
FlagOf(e) == IF "consumers_of" \in DOMAIN e.m THEN e.m.consumers_of ELSE FALSE
\* the merge of a session into the canonical rows, before validation: a row
\* whose code the session carries takes the values of the (last) entry with
\* that code, every other row keeps the defaults
Merged(p, rows) ==
    [i \in 1..Len(rows) |->
        IF EntriesFor(p, rows[i]) = {}
        THEN [rows[i] EXCEPT !.use_level = [t |-> "null"], !.consumers_of = FALSE]
        ELSE [rows[i] EXCEPT
                !.use_level = LevelOf(p.items[Last(EntriesFor(p, rows[i]))]),
                !.consumers_of = FlagOf(p.items[Last(EntriesFor(p, rows[i]))])]]

\* C11: for every well-formed session, restoration returns without falling
\* back on the reset table: the restored table has the canonical rows, one for
\* one and in their order; a row whose group_code appears in the session has
\* that entry's use_level and, as validation then leaves it, that entry's
\* consumers_of where the use level is above 0 and false elsewhere; every other
\* row has the defaults (null, false); an entry whose group_code matches no
\* canonical row adds no row and changes none.
C11_RestorationMerge ==
    (op = "session" /\ WellFormed(session)) =>
        LET rows == DefaultRows(CachedFrame)
            merged == Merged(session, rows)
        IN  /\ returned.exc = "none"
            /\ Len(returned.data) = Len(rows)
            /\ \A i \in 1..Len(rows) :
                /\ returned.data[i].group_code = rows[i].group_code
                /\ returned.data[i].group_name = rows[i].group_name
                /\ returned.data[i].use_level = merged[i].use_level
                /\ returned.data[i].consumers_of =
                      (StrictlyPositive(merged[i].use_level) /\ merged[i].consumers_of)
            /\ table = returned.data
\* a restoration from a session whose first entry gives a canonical row a use
\* level above 0 with consumers_of set and whose second entry carries a code of
\* no canonical row: the row is overlaid and the table is not the reset one.
C11_Witness ==
    /\ op = "session"
    /\ WellFormed(session) /\ Len(session.items) = 2
    /\ EntriesFor(session, CachedFrame[1]) = {1}
    /\ StrictlyPositive(LevelOf(session.items[1])) /\ FlagOf(session.items[1])
    /\ \A i \in 1..Len(CachedFrame) : 2 \notin EntriesFor(session, CachedFrame[i])
    /\ returned.data[1].consumers_of
    /\ returned.data # DefaultRows(CachedFrame)

\* no row of a table has a use level that is a number above 0
NoEligibleRow(rows) == \A i \in 1..Len(rows) : ~StrictlyPositive(rows[i].use_level)

\* C12: in every state of the page after its initial load, whatever cell
\* edits, resets and session-store triggers led to it, a table without a row
\* whose use level is non-null and above 0 has the calculate button disabled;
\* so every run of calculate_exposure read a table with such a row, and the
\* entry list it wrote to the session store was not empty.
C12_CalculateGating ==
    /\ (op # "init" /\ NoEligibleRow(table)) => disabled
    /\ op = "calculate" =>
        /\ ~NoEligibleRow(table_data)
        /\ session.t = "list" /\ Len(session.items) >= 1
        /\ returned = session
\* a session-store trigger that found the button enabled and put back a table
\* without an eligible row: the button is disabled again.
C12_Witness ==
    /\ op = "session"
    /\ NotNone(session)
    /\ ~NoEligibleRow(table_data)
    /\ NoEligibleRow(table)
    /\ disabled

====
